---- MODULE Spec2Model ----
(***************************************************************************)
(* A model of go-tpm2's wire layer: the response status decoder            *)
(* (DecodeResponseCode) and the reflection-driven marshal / unmarshal      *)
(* engine (MarshalToBytes, MarshalToWriter, UnmarshalFromBytes,            *)
(* UnmarshalFromReader).                                                   *)
(*                                                                         *)
(* The library keeps no state between calls, so the state machine is a     *)
(* caller: from the idle state it makes one call with inputs drawn from    *)
(* bounded sets and records the arguments and the result.                  *)
(***************************************************************************)
EXTENDS Integers, Sequences, FiniteSets, TLC

VARIABLES
    pc,       \* which call has been made: "idle" before any call
    command,  \* DecodeResponseCode: the CommandCode argument
    resp,     \* DecodeResponseCode: the ResponseCode argument
    err,      \* DecodeResponseCode: the returned error
    vals,     \* MarshalToBytes / MarshalToWriter: the values passed, in order
    mres,     \* the result of the marshal call: error, bytes, sink contents
    input,    \* UnmarshalFromBytes: the bytes passed
    dsts,     \* UnmarshalFromBytes: the destinations (pointees) before the call
    ures      \* the result of the unmarshal call: error, count, destinations

decVars == <<command, resp, err>>

codecVars == <<vals, mres, input, dsts, ures>>

vars == <<pc, command, resp, err, vals, mres, input, dsts, ures>>

(***************************************************************************)
(* uint32 arithmetic.  A ResponseCode is a 32-bit unsigned integer; it is  *)
(* represented by the set of the positions of its 1 bits (0 is the least   *)
(* significant), so that all 2^32 values are representable and &, <<, >>   *)
(* act on the bits as they do in Go.                                       *)
(***************************************************************************)
Width32 == 32

\* The uint32 with value n, for 0 <= n < 2^31.
U32(n) == {b \in 0..(Width32 - 2) : (n \div (2^b)) % 2 = 1}

\* a & b
And(a, b) == a \cap b

\* a << k, bits shifted out of the 32-bit word are lost
Shl(a, k) == {b + k : b \in {x \in a : x + k < Width32}}

\* a >> k
Shr(a, k) == {b - k : b \in {x \in a : x >= k}}

RECURSIVE SumBits(_)
SumBits(a) == IF a = {} THEN 0
              ELSE LET b == CHOOSE x \in a : TRUE
                   IN 2^b + SumBits(a \ {b})

\* int(a), for a value below 2^31
ToInt(a) == SumBits(a)

(***************************************************************************)
(* The response code constants                                             *)
(***************************************************************************)
Success == U32(0)

formatMask == Shl(U32(1), 7)

fmt0ErrorCodeMask == U32(127)       \* 0x7f
fmt0VersionMask == Shl(U32(1), 8)
fmt0VendorMask == Shl(U32(1), 10)
fmt0SeverityMask == Shl(U32(1), 11)

fmt1ErrorCodeMask == U32(63)                \* 0x3f
fmt1ParameterIndexMask == U32(3840)         \* 0xf00
fmt1HandleOrSessionIndexMask == U32(1792)   \* 0x700
fmt1ParameterMask == Shl(U32(1), 6)
fmt1SessionMask == Shl(U32(1), 11)

fmt1IndexShift == 8

(***************************************************************************)
(* The error values DecodeResponseCode returns                             *)
(***************************************************************************)
NoError == [kind |-> "nil"]

TPM1Error(cmd, code) == [kind |-> "TPM1Error", Command |-> cmd, Code |-> code]

TPMVendorError(cmd, code) == [kind |-> "TPMVendorError", Command |-> cmd, Code |-> code]

TPMWarning(cmd, code) == [kind |-> "TPMWarning", Command |-> cmd, Code |-> code]

TPMError(cmd, code) == [kind |-> "TPMError", Command |-> cmd, Code |-> code]

TPMParameterError(cmd, code, index) ==
    [kind |-> "TPMParameterError", Command |-> cmd, Code |-> code, Index |-> index]

TPMSessionError(cmd, code, index) ==
    [kind |-> "TPMSessionError", Command |-> cmd, Code |-> code, Index |-> index]

TPMHandleError(cmd, code, index) ==
    [kind |-> "TPMHandleError", Command |-> cmd, Code |-> code, Index |-> index]

(***************************************************************************)
(* Mutants of DecodeResponseCode                                           *)
(***************************************************************************)
\* the Success test is dropped: 0 is decoded like any other format-0 code
DecodeResponseCode_NoSuccess(cmd, r) ==
    IF And(r, formatMask) = {}
    THEN IF And(r, fmt0VersionMask) = {} THEN TPM1Error(cmd, r)
         ELSE IF And(r, fmt0VendorMask) # {} THEN TPMVendorError(cmd, r)
         ELSE IF And(r, fmt0SeverityMask) # {}
              THEN TPMWarning(cmd, And(r, fmt0ErrorCodeMask))
         ELSE TPMError(cmd, And(r, fmt0ErrorCodeMask))
    ELSE IF And(r, fmt1ParameterMask) # {}
         THEN TPMParameterError(cmd, And(r, fmt1ErrorCodeMask),
                                ToInt(Shr(And(r, fmt1ParameterIndexMask), fmt1IndexShift)))
    ELSE IF And(r, fmt1SessionMask) # {}
         THEN TPMSessionError(cmd, And(r, fmt1ErrorCodeMask),
                              ToInt(Shr(And(r, fmt1HandleOrSessionIndexMask), fmt1IndexShift)))
    ELSE TPMHandleError(cmd, And(r, fmt1ErrorCodeMask),
                        ToInt(Shr(And(r, fmt1HandleOrSessionIndexMask), fmt1IndexShift)))

\* the severity test comes before the vendor test
DecodeResponseCode_SeverityFirst(cmd, r) ==
    IF r = Success THEN NoError
    ELSE IF And(r, formatMask) = {}
    THEN IF And(r, fmt0VersionMask) = {} THEN TPM1Error(cmd, r)
         ELSE IF And(r, fmt0SeverityMask) # {}
              THEN TPMWarning(cmd, And(r, fmt0ErrorCodeMask))
         ELSE IF And(r, fmt0VendorMask) # {} THEN TPMVendorError(cmd, r)
         ELSE TPMError(cmd, And(r, fmt0ErrorCodeMask))
    ELSE IF And(r, fmt1ParameterMask) # {}
         THEN TPMParameterError(cmd, And(r, fmt1ErrorCodeMask),
                                ToInt(Shr(And(r, fmt1ParameterIndexMask), fmt1IndexShift)))
    ELSE IF And(r, fmt1SessionMask) # {}
         THEN TPMSessionError(cmd, And(r, fmt1ErrorCodeMask),
                              ToInt(Shr(And(r, fmt1HandleOrSessionIndexMask), fmt1IndexShift)))
    ELSE TPMHandleError(cmd, And(r, fmt1ErrorCodeMask),
                        ToInt(Shr(And(r, fmt1HandleOrSessionIndexMask), fmt1IndexShift)))

\* the parameter index is extracted with the 3-bit handle/session mask
DecodeResponseCode_NarrowIndex(cmd, r) ==
    IF r = Success THEN NoError
    ELSE IF And(r, formatMask) = {}
    THEN IF And(r, fmt0VersionMask) = {} THEN TPM1Error(cmd, r)
         ELSE IF And(r, fmt0VendorMask) # {} THEN TPMVendorError(cmd, r)
         ELSE IF And(r, fmt0SeverityMask) # {}
              THEN TPMWarning(cmd, And(r, fmt0ErrorCodeMask))
         ELSE TPMError(cmd, And(r, fmt0ErrorCodeMask))
    ELSE IF And(r, fmt1ParameterMask) # {}
         THEN TPMParameterError(cmd, And(r, fmt1ErrorCodeMask),
                                ToInt(Shr(And(r, fmt1HandleOrSessionIndexMask), fmt1IndexShift)))
    ELSE IF And(r, fmt1SessionMask) # {}
         THEN TPMSessionError(cmd, And(r, fmt1ErrorCodeMask),
                              ToInt(Shr(And(r, fmt1HandleOrSessionIndexMask), fmt1IndexShift)))
    ELSE TPMHandleError(cmd, And(r, fmt1ErrorCodeMask),
                        ToInt(Shr(And(r, fmt1HandleOrSessionIndexMask), fmt1IndexShift)))

\* the handle index is not shifted down
DecodeResponseCode_HandleNoShift(cmd, r) ==
    IF r = Success THEN NoError
    ELSE IF And(r, formatMask) = {}
    THEN IF And(r, fmt0VersionMask) = {} THEN TPM1Error(cmd, r)
         ELSE IF And(r, fmt0VendorMask) # {} THEN TPMVendorError(cmd, r)
         ELSE IF And(r, fmt0SeverityMask) # {}
              THEN TPMWarning(cmd, And(r, fmt0ErrorCodeMask))
         ELSE TPMError(cmd, And(r, fmt0ErrorCodeMask))
    ELSE IF And(r, fmt1ParameterMask) # {}
         THEN TPMParameterError(cmd, And(r, fmt1ErrorCodeMask),
                                ToInt(Shr(And(r, fmt1ParameterIndexMask), fmt1IndexShift)))
    ELSE IF And(r, fmt1SessionMask) # {}
         THEN TPMSessionError(cmd, And(r, fmt1ErrorCodeMask),
                              ToInt(Shr(And(r, fmt1HandleOrSessionIndexMask), fmt1IndexShift)))
    ELSE TPMHandleError(cmd, And(r, fmt1ErrorCodeMask),
                        ToInt(And(r, fmt1HandleOrSessionIndexMask)))

\* a TPM 1.2 error carries the code masked to 7 bits instead of the raw code
DecodeResponseCode_MaskedTPM1(cmd, r) ==
    IF r = Success THEN NoError
    ELSE IF And(r, formatMask) = {}
    THEN IF And(r, fmt0VersionMask) = {} THEN TPM1Error(cmd, And(r, fmt0ErrorCodeMask))
         ELSE IF And(r, fmt0VendorMask) # {} THEN TPMVendorError(cmd, r)
         ELSE IF And(r, fmt0SeverityMask) # {}
              THEN TPMWarning(cmd, And(r, fmt0ErrorCodeMask))
         ELSE TPMError(cmd, And(r, fmt0ErrorCodeMask))
    ELSE IF And(r, fmt1ParameterMask) # {}
         THEN TPMParameterError(cmd, And(r, fmt1ErrorCodeMask),
                                ToInt(Shr(And(r, fmt1ParameterIndexMask), fmt1IndexShift)))
    ELSE IF And(r, fmt1SessionMask) # {}
         THEN TPMSessionError(cmd, And(r, fmt1ErrorCodeMask),
                              ToInt(Shr(And(r, fmt1HandleOrSessionIndexMask), fmt1IndexShift)))
    ELSE TPMHandleError(cmd, And(r, fmt1ErrorCodeMask),
                        ToInt(Shr(And(r, fmt1HandleOrSessionIndexMask), fmt1IndexShift)))

(***************************************************************************)
(* DecodeResponseCode                                                      *)
(***************************************************************************)
DecodeResponseCode(cmd, r) ==
    IF r = Success THEN NoError
    ELSE IF And(r, formatMask) = {}
    THEN IF And(r, fmt0VersionMask) = {} THEN TPM1Error(cmd, r)
         ELSE IF And(r, fmt0VendorMask) # {} THEN TPMVendorError(cmd, r)
         ELSE IF And(r, fmt0SeverityMask) # {}
              THEN TPMWarning(cmd, And(r, fmt0ErrorCodeMask))
         ELSE TPMError(cmd, And(r, fmt0ErrorCodeMask))
    ELSE IF And(r, fmt1ParameterMask) # {}
         THEN TPMParameterError(cmd, And(r, fmt1ErrorCodeMask),
                                ToInt(Shr(And(r, fmt1ParameterIndexMask), fmt1IndexShift)))
    ELSE IF And(r, fmt1SessionMask) # {}
         THEN TPMSessionError(cmd, And(r, fmt1ErrorCodeMask),
                              ToInt(Shr(And(r, fmt1HandleOrSessionIndexMask), fmt1IndexShift)))
    ELSE TPMHandleError(cmd, And(r, fmt1ErrorCodeMask),
                        ToInt(Shr(And(r, fmt1HandleOrSessionIndexMask), fmt1IndexShift)))

(***************************************************************************)
(* The codec.  Types (reflect.Type) are records; a reflect.Value is a type *)
(* with a payload:                                                         *)
(*   uint8/16/32   a number                                                *)
(*   pointer       <<>> for nil, <<payload>> for a pointer to payload      *)
(*   slice         [nil |-> BOOLEAN, elems |-> sequence of payloads]       *)
(*   struct        the sequence of the fields' payloads                    *)
(*   interface     <<>> for nil, <<value>> for a held value (with type)    *)
(***************************************************************************)
NilType == [kind |-> "invalid"]

TUint(name, size) == [kind |-> "uint", name |-> name, size |-> size]

TPtr(t) == [kind |-> "ptr", elem |-> t]

TSlice(t) == [kind |-> "slice", name |-> "", elem |-> t]

TInterface == [kind |-> "interface", methods |-> 0]

\* tag parts are the pieces of the tpm2 tag between commas
FieldOf(name, t, tag) == [name |-> name, type |-> t, tag |-> tag]

TStruct(name, fields, union) ==
    [kind |-> "struct", name |-> name, fields |-> fields, union |-> union]

Uint8 == TUint("uint8", 1)

Uint16 == TUint("uint16", 2)

Uint32 == TUint("uint32", 4)

rawBytesType == [kind |-> "slice", name |-> "RawBytes", elem |-> Uint8]

\* reflect.Value
\* (a tuple: the type is compared before the payload)
RV(t, v) == <<t, v>>

Type(x) == x[1]

Data(x) == x[2]

InvalidValue == RV(NilType, <<>>)

IsValid(x) == Type(x) # NilType

NilSlice == [nil |-> TRUE, elems |-> <<>>]

MkSlice(elems) == [nil |-> FALSE, elems |-> elems]

Kind(t) == t.kind

PtrTo(t) == TPtr(t)

NumField(t) == Len(t.fields)

\* reflect.Zero / the pointee of reflect.New
RECURSIVE Zero(_)
Zero(t) ==
    CASE t.kind = "uint" -> 0
      [] t.kind = "ptr" -> <<>>
      [] t.kind = "slice" -> NilSlice
      [] t.kind = "interface" -> <<>>
      [] t.kind = "struct" -> [i \in 1..Len(t.fields) |-> Zero(t.fields[i].type)]

\* reflect.MakeSlice(t, l, l)
MakeSlice(t, l) == MkSlice([i \in 1..l |-> Zero(t.elem)])

isValidUnionContainer(t) == Kind(t) = "struct"

isUnion(t) ==
    IF Kind(t) # "struct" THEN FALSE
    ELSE IF ~t.union THEN FALSE
    ELSE IF NumField(t) # 1 THEN FALSE
    ELSE IF Kind(t.fields[1].type) # "interface" THEN TRUE
    ELSE t.fields[1].type.methods = 0

isSizedBuffer(t) ==
    IF Kind(t) # "slice" THEN FALSE
    ELSE Kind(t.elem) = "uint" /\ t.elem.size = 1

\* none of the modelled types (nor their pointer types) implements
\* CustomMarshaller
hasCustomMarshallerImpl(t) == FALSE

(***************************************************************************)
(* Field options and the traversal context                                 *)
(***************************************************************************)
NoOptions == [selector |-> "", sized |-> FALSE, raw |-> FALSE]

TagPart(key, arg) == [key |-> key, arg |-> arg]

NoTag == <<TagPart("", "")>>

RECURSIVE parseParts(_, _, _)
parseParts(parts, i, opts) ==
    IF i > Len(parts) THEN opts
    ELSE LET part == parts[i]
             next == CASE part.key = "selector" -> [opts EXCEPT !.selector = part.arg]
                       [] part.key = "sized" /\ part.arg = "" -> [opts EXCEPT !.sized = TRUE]
                       [] part.key = "raw" /\ part.arg = "" -> [opts EXCEPT !.raw = TRUE]
                       [] OTHER -> opts
         IN parseParts(parts, i + 1, next)

parseFieldOptions(tag) == parseParts(tag, 1, NoOptions)

muContext(depth, container, parentType, options) ==
    [depth |-> depth, container |-> container, parentType |-> parentType,
     options |-> options]

\* new(muContext)
NewContext == muContext(0, InvalidValue, NilType, NoOptions)

\* the nil *muContext the entry points pass
NilContext == muContext(-1, InvalidValue, NilType, NoOptions)

\* marshalValue / unmarshalValue: ctx == nil gets a new context, any other
\* has its depth incremented
EnterContext(ctx) ==
    IF ctx = NilContext THEN NewContext ELSE [ctx EXCEPT !.depth = ctx.depth + 1]

beginStructFieldCtx(ctx, s, i) ==
    muContext(ctx.depth, s, Type(s), parseFieldOptions(Type(s).fields[i].tag))

beginUnionDataCtx(ctx, u) == muContext(ctx.depth, u, Type(u), NoOptions)

beginSliceElemCtx(ctx, s) == muContext(ctx.depth, s, Type(s), NoOptions)

beginPtrElemCtx(ctx, p) == muContext(ctx.depth, ctx.container, Type(p), ctx.options)

beginSizedStructCtx(ctx, p) ==
    muContext(ctx.depth, ctx.container, Type(p), [ctx.options EXCEPT !.sized = FALSE])

beginInterfaceElemCtx(ctx, i) == muContext(ctx.depth, ctx.container, Type(i), ctx.options)

arrivedFromPointer(ctx, v) == ctx.parentType = PtrTo(Type(v))

\* container.FieldByName(name): the field's value, or the invalid Value
FieldByName(container, name) ==
    LET idx == {i \in 1..NumField(Type(container)) : Type(container).fields[i].name = name}
    IN IF idx = {} THEN InvalidValue
       ELSE LET i == CHOOSE j \in idx : TRUE
            IN RV(Type(container).fields[i].type, Data(container)[i])

(***************************************************************************)
(* Fixed-width big-endian integers (encoding/binary)                       *)
(***************************************************************************)
ByteRange == 256

\* the conversion uintN(n) for a size of N/8 bytes: n modulo 2^N
Truncate(n, size) == IF size >= 4 THEN n ELSE n % (ByteRange ^ size)

\* binary.BigEndian of a value that fits size bytes
BigEndian(n, size) == [i \in 1..size |-> (n \div (ByteRange ^ (size - i))) % ByteRange]

RECURSIVE FromBigEndian(_)
FromBigEndian(bs) ==
    IF Len(bs) = 0 THEN 0
    ELSE FromBigEndian(SubSeq(bs, 1, Len(bs) - 1)) * ByteRange + bs[Len(bs)]


(***************************************************************************)
(* The output sink (io.Writer).  bud is the number of Write calls that     *)
(* still succeed; NeverFails is a bytes.Buffer.  A marshal step returns    *)
(* [err, out, bud]: the error ("" for nil; the innermost message, the      *)
(* wrapping context is left out), the bytes it added to the sink, and the  *)
(* sink's remaining budget.                                                *)
(***************************************************************************)
Ok == ""

NeverFails == -1

MOk(out, bud) == [err |-> Ok, out |-> out, bud |-> bud]

MErr(e, out, bud) == [err |-> e, out |-> out, bud |-> bud]

\* buf.Write(bs)
Write(bud, bs) ==
    IF bud = 0 THEN MErr("write failed", <<>>, 0)
    ELSE MOk(bs, IF bud = NeverFails THEN bud ELSE bud - 1)

\* binary.Write(buf, binary.BigEndian, uintN(n)): one Write of size bytes
binaryWrite(bud, n, size) == Write(bud, BigEndian(Truncate(n, size), size))

\* the outputs of two steps on one sink, the second made after the first
MJoin(r, rest) == [err |-> rest.err, out |-> r.out \o rest.out, bud |-> rest.bud]

\* the variant a union type resolves for a selector value: [err, type], with
\* NilType for "no data" (Union.Select is implemented by the union types)
SelectorNull == 0

SelectorUint16 == 1

SelectorBytes == 2

UnionSelect(u, selectorVal) ==
    CASE Data(selectorVal) = SelectorNull -> [err |-> Ok, type |-> NilType]
      [] Data(selectorVal) = SelectorUint16 -> [err |-> Ok, type |-> Uint16]
      [] Data(selectorVal) = SelectorBytes -> [err |-> Ok, type |-> TSlice(Uint8)]
      [] OTHER -> [err |-> "invalid selector value", type |-> NilType]

\* Type.ConvertibleTo and Value.Convert for the modelled types: integers
\* convert to integers (wrapping to the new width), slices to slices of the
\* same element type
ConvertibleTo(from, to) ==
    \/ from.kind = "uint" /\ to.kind = "uint"
    \/ from.kind = "slice" /\ to.kind = "slice" /\ from.elem = to.elem

Convert(d, to) ==
    IF to.kind = "uint" THEN RV(to, Truncate(Data(d), to.size)) ELSE RV(to, Data(d))

RECURSIVE marshalValue(_, _, _)
RECURSIVE marshalPtr(_, _, _)
RECURSIVE marshalUnion(_, _, _)
RECURSIVE marshalStruct(_, _, _)
RECURSIVE marshalFields(_, _, _, _)
RECURSIVE marshalSlice(_, _, _)
RECURSIVE marshalElems(_, _, _, _, _)

marshalPtr(bud, ptr, ctx) ==
    IF Data(ptr) = <<>>
    THEN IF ctx.options.sized /\ Kind(Type(ptr).elem) = "struct"
         THEN \* the error of a failed Write is built and dropped
              LET w == binaryWrite(bud, 0, 2)
              IN MOk(w.out, w.bud)
         ELSE marshalValue(bud, RV(Type(ptr).elem, Zero(Type(ptr).elem)), beginPtrElemCtx(ctx, ptr))
    ELSE marshalValue(bud, RV(Type(ptr).elem, Data(ptr)[1]), beginPtrElemCtx(ctx, ptr))

marshalUnion(bud, u, ctx) ==
    IF ~IsValid(ctx.container) THEN MErr("not inside a container", <<>>, bud)
    ELSE IF ~isValidUnionContainer(Type(ctx.container))
    THEN MErr("not inside a valid union container", <<>>, bud)
    ELSE IF ctx.options.selector = ""
    THEN MErr("no selector member defined in container", <<>>, bud)
    ELSE
    LET selectorVal == FieldByName(ctx.container, ctx.options.selector)
    IN IF ~IsValid(selectorVal) THEN MErr("invalid selector member name", <<>>, bud)
       ELSE
       LET sel == UnionSelect(u, selectorVal)
           selectedType == sel.type
           f == Data(u)[1]
           d == IF Kind(Type(u).fields[1].type) = "interface"
                THEN IF f = <<>> THEN RV(selectedType, Zero(selectedType))
                     ELSE f[1]
                ELSE RV(Type(u).fields[1].type, f)
       IN IF sel.err # Ok THEN MErr("cannot select union data type", <<>>, bud)
          ELSE IF selectedType = NilType THEN MOk(<<>>, bud)
          ELSE IF Type(d) # selectedType
          THEN IF ~ConvertibleTo(Type(d), selectedType)
               THEN MErr("data has incorrect type", <<>>, bud)
               ELSE marshalValue(bud, Convert(d, selectedType), beginUnionDataCtx(ctx, u))
          ELSE marshalValue(bud, d, beginUnionDataCtx(ctx, u))

\* the loop over the fields of s once marshalValue returned r for field i
marshalFieldsAfter(s, ctx, i, r) ==
    IF r.err # Ok THEN r ELSE MJoin(r, marshalFields(r.bud, s, ctx, i + 1))

\* the loop over the fields i..NumField of s
marshalFields(bud, s, ctx, i) ==
    IF i > NumField(Type(s)) THEN MOk(<<>>, bud)
    ELSE marshalFieldsAfter(s, ctx, i,
                            marshalValue(bud, RV(Type(s).fields[i].type, Data(s)[i]),
                                         beginStructFieldCtx(ctx, s, i)))

\* tmpBuf.WriteTo(buf) once the size field was written with result size; it
\* calls Write only when tmpBuf is not empty
marshalSizedBody(tmp, size) ==
    IF size.err # Ok THEN size
    ELSE MJoin(size, IF Len(tmp.out) > 0 THEN Write(size.bud, tmp.out)
                     ELSE MOk(<<>>, size.bud))

\* the size field and the bytes of tmpBuf, the result tmp of marshalling a
\* sized struct into it
marshalSized(bud, tmp) ==
    IF tmp.err # Ok THEN MErr(tmp.err, <<>>, bud)
    ELSE marshalSizedBody(tmp, binaryWrite(bud, Len(tmp.out), 2))

marshalStruct(bud, s, ctx) ==
    CASE ctx.options.sized /\ isUnion(Type(s)) ->
            MErr("cannot be both sized and a union", <<>>, bud)
      [] ctx.options.sized /\ ~isUnion(Type(s)) /\ ~arrivedFromPointer(ctx, s) ->
            MErr("sized struct is not referenced via a pointer", <<>>, bud)
      [] ctx.options.sized /\ ~isUnion(Type(s)) /\ arrivedFromPointer(ctx, s) ->
            \* tmpBuf is a bytes.Buffer
            marshalSized(bud, marshalValue(NeverFails, s, beginSizedStructCtx(ctx, s)))
      [] ~ctx.options.sized /\ isUnion(Type(s)) -> marshalUnion(bud, s, ctx)
      [] OTHER -> marshalFields(bud, s, ctx, 1)

\* the loop over the elements lo..hi of slice once the elements before them
\* were marshalled with result r
marshalElemsAfter(slice, ctx, lo, hi, r) ==
    IF r.err # Ok THEN r ELSE MJoin(r, marshalElems(r.bud, slice, ctx, lo, hi))

\* the loop over the elements lo..hi of slice, split in halves so that the
\* nesting of the evaluation stays logarithmic in the length
marshalElems(bud, slice, ctx, lo, hi) ==
    IF lo > hi THEN MOk(<<>>, bud)
    ELSE IF lo = hi
    THEN marshalValue(bud, RV(Type(slice).elem, Data(slice).elems[lo]), beginSliceElemCtx(ctx, slice))
    ELSE marshalElemsAfter(slice, ctx, (lo + hi) \div 2 + 1, hi,
                           marshalElems(bud, slice, ctx, lo, (lo + hi) \div 2))

marshalSlice(bud, slice, ctx) ==
    IF Type(slice) = rawBytesType
    THEN Write(bud, Data(slice).elems)
    ELSE LET n == Len(Data(slice).elems)
         IN marshalElemsAfter(slice, ctx, 1, n,
                CASE ctx.options.raw -> MOk(<<>>, bud)
                  [] ~ctx.options.raw /\ isSizedBuffer(Type(slice)) -> binaryWrite(bud, n, 2)
                  [] OTHER -> binaryWrite(bud, n, 4))

marshalValue(bud, val, ctx0) ==
    IF hasCustomMarshallerImpl(Type(val))
    THEN MErr("custom marshaller", <<>>, bud)
    ELSE
    LET ctx == EnterContext(ctx0)
    IN CASE Kind(Type(val)) = "ptr" -> marshalPtr(bud, val, ctx)
         [] Kind(Type(val)) = "struct" -> marshalStruct(bud, val, ctx)
         [] Kind(Type(val)) = "slice" -> marshalSlice(bud, val, ctx)
         [] Kind(Type(val)) \in {"array", "chan", "func", "interface", "map", "unsafe.Pointer"} ->
                MErr("unsupported kind", <<>>, bud)
         [] OTHER -> binaryWrite(bud, Data(val), Type(val).size)

RECURSIVE marshalAll(_, _, _)
\* the loop of MarshalToWriter once marshalValue returned r for vs[i]
marshalAllAfter(vs, i, r) ==
    IF r.err # Ok THEN r ELSE MJoin(r, marshalAll(r.bud, vs, i + 1))

RECURSIVE marshalAll_ErrorOverwritten(_, _, _)
\* the loop of MarshalToWriter going on after a value failed, so that the
\* error of a later value replaces it
marshalAll_ErrorOverwritten(bud, vs, i) ==
    IF i > Len(vs) THEN MOk(<<>>, bud)
    ELSE LET r == marshalValue(bud, vs[i], NilContext)
         IN IF i = Len(vs) THEN r
            ELSE MJoin(r, marshalAll_ErrorOverwritten(r.bud, vs, i + 1))

\* the loop of MarshalToWriter over vals[i..]
marshalAll(bud, vs, i) ==
    IF i > Len(vs) THEN MOk(<<>>, bud)
    ELSE marshalAllAfter(vs, i, marshalValue(bud, vs[i], NilContext))

\* MarshalToWriter(buf, vals...): [err, sink], the error and what the sink
\* received
Sink(r) == [err |-> r.err, sink |-> r.out]

MarshalToWriter(bud, vs) == Sink(marshalAll(bud, vs, 1))

\* MarshalToBytes(vals...): [err, bytes]; nil bytes on error
Bytes(r) ==
    IF r.err # Ok THEN [err |-> r.err, bytes |-> <<>>]
    ELSE [err |-> Ok, bytes |-> r.sink]

MarshalToBytes(vs) == Bytes(MarshalToWriter(NeverFails, vs))


(***************************************************************************)
(* The input source (io.Reader): the bytes data, the number pos of bytes   *)
(* consumed and the position end that reads may not pass (the end of the   *)
(* bytes, or the limit of the innermost io.LimitReader).  An unmarshal     *)
(* step takes the destination as [t, v, addr] (addr: the Value is          *)
(* addressable and settable) and returns [err, v, pos]: the error, the     *)
(* destination's payload afterwards, and the source position.              *)
(***************************************************************************)
Reader(data, pos, end) == [data |-> data, pos |-> pos, end |-> end]

\* bytes.NewReader(b)
NewReader(b) == Reader(b, 0, Len(b))

Min(a, b) == IF a < b THEN a ELSE b

\* io.LimitReader(rd, n)
LimitReader(rd, n) == Reader(rd.data, rd.pos, Min(rd.end, rd.pos + n))

\* the reader rd after a step moved the source to pos
Advance(rd, pos) == Reader(rd.data, pos, rd.end)

RVA(t, v, addr) == <<t, v, addr>>

CanSet(x) == x[3]

UOk(v, pos) == [err |-> Ok, v |-> v, pos |-> pos]

UErr(e, v, pos) == [err |-> e, v |-> v, pos |-> pos]

\* io.ReadFull(rd, p) with len(p) = n: [err, bytes, pos]; a short read
\* consumes what is left
ReadFull(rd, n) ==
    IF rd.pos + n <= rd.end
    THEN [err |-> Ok, bytes |-> SubSeq(rd.data, rd.pos + 1, rd.pos + n), pos |-> rd.pos + n]
    ELSE [err |-> IF rd.pos = rd.end THEN "EOF" ELSE "unexpected EOF",
          bytes |-> SubSeq(rd.data, rd.pos + 1, rd.end), pos |-> rd.end]

\* binary.Read(rd, binary.BigEndian, &uintN): [err, n, pos]
binaryRead(rd, size) ==
    LET r == ReadFull(rd, size)
    IN [err |-> r.err, n |-> IF r.err = Ok THEN FromBigEndian(r.bytes) ELSE 0, pos |-> r.pos]

\* [err, none, rd]: none when the size is 0 (a nil reader is returned)
makeSizedStructReader(rd) ==
    LET size == binaryRead(rd, 2)
    IN IF size.err # Ok
       THEN [err |-> "cannot read size of sized struct", none |-> TRUE,
             rd |-> Advance(rd, size.pos)]
       ELSE IF size.n = 0 THEN [err |-> Ok, none |-> TRUE, rd |-> Advance(rd, size.pos)]
       ELSE [err |-> Ok, none |-> FALSE, rd |-> LimitReader(Advance(rd, size.pos), size.n)]

RECURSIVE unmarshalValue(_, _, _)
RECURSIVE unmarshalPtr(_, _, _)
RECURSIVE unmarshalUnion(_, _, _)
RECURSIVE unmarshalStruct(_, _, _)
RECURSIVE unmarshalFields(_, _, _, _)
RECURSIVE unmarshalSlice(_, _, _)
RECURSIVE unmarshalElems(_, _, _, _, _)

\* unmarshalPtr without the return for an absent sized struct (size 0)
unmarshalPtr_IgnoresAbsent(rd, ptr, ctx) ==
    LET sized == ctx.options.sized /\ Kind(Type(ptr).elem) = "struct"
        b == makeSizedStructReader(rd)
        srcBuf == IF sized THEN b.rd ELSE rd
        isNil == Data(ptr) = <<>>
        elem == IF isNil THEN Zero(Type(ptr).elem) ELSE Data(ptr)[1]
        r == unmarshalValue(srcBuf, RVA(Type(ptr).elem, elem, TRUE), beginPtrElemCtx(ctx, ptr))
    IN IF sized /\ b.err # Ok THEN UErr(b.err, Data(ptr), b.rd.pos)
       ELSE IF isNil /\ ~CanSet(ptr) THEN UErr("cannot set pointer", Data(ptr), srcBuf.pos)
       ELSE [err |-> r.err, v |-> <<r.v>>, pos |-> r.pos]

unmarshalPtr(rd, ptr, ctx) ==
    LET sized == ctx.options.sized /\ Kind(Type(ptr).elem) = "struct"
        b == makeSizedStructReader(rd)
        srcBuf == IF sized THEN b.rd ELSE rd
        isNil == Data(ptr) = <<>>
        elem == IF isNil THEN Zero(Type(ptr).elem) ELSE Data(ptr)[1]
        r == unmarshalValue(srcBuf, RVA(Type(ptr).elem, elem, TRUE), beginPtrElemCtx(ctx, ptr))
    IN IF sized /\ b.err # Ok THEN UErr(b.err, Data(ptr), b.rd.pos)
       ELSE IF sized /\ b.none THEN UOk(Data(ptr), b.rd.pos)
       ELSE IF isNil /\ ~CanSet(ptr) THEN UErr("cannot set pointer", Data(ptr), srcBuf.pos)
       ELSE [err |-> r.err, v |-> <<r.v>>, pos |-> r.pos]

unmarshalUnion(rd, u, ctx) ==
    IF ~IsValid(ctx.container) THEN UErr("not inside a container", Data(u), rd.pos)
    ELSE IF ~isValidUnionContainer(Type(ctx.container))
    THEN UErr("not inside a valid union container", Data(u), rd.pos)
    ELSE IF ctx.options.selector = ""
    THEN UErr("no selector member defined in container", Data(u), rd.pos)
    ELSE
    LET selectorVal == FieldByName(ctx.container, ctx.options.selector)
    IN IF ~IsValid(selectorVal) THEN UErr("invalid selector member name", Data(u), rd.pos)
       ELSE
       LET sel == UnionSelect(u, selectorVal)
           selectedType == sel.type
           f == Data(u)[1]
           fieldIsInterface == Kind(Type(u).fields[1].type) = "interface"
           fIsNil == fieldIsInterface /\ f = <<>>
           \* reflect.New(selectedType).Elem() is addressable, the value an
           \* interface holds is not
           d == IF fieldIsInterface
                THEN IF fIsNil THEN RVA(selectedType, Zero(selectedType), TRUE)
                     ELSE RVA(Type(f[1]), Data(f[1]), FALSE)
                ELSE RVA(Type(u).fields[1].type, f, CanSet(u))
           r == unmarshalValue(rd, d, beginUnionDataCtx(ctx, u))
           \* what the field holds afterwards: a held value is reached only
           \* through its pointers and slices, which it shares with d
           after == IF fieldIsInterface THEN <<RV(Type(d), r.v)>> ELSE r.v
       IN IF sel.err # Ok THEN UErr("cannot select union data type", Data(u), rd.pos)
          ELSE IF selectedType = NilType THEN UOk(Data(u), rd.pos)
          ELSE IF fIsNil /\ ~CanSet(u) THEN UErr("cannot set data", Data(u), rd.pos)
          ELSE IF r.err # Ok
               THEN UErr(r.err, IF fIsNil THEN Data(u) ELSE <<after>>, r.pos)
          ELSE UOk(<<after>>, r.pos)

\* the loop over the fields i..NumField of the struct, whose payload so far
\* is Data(s)
unmarshalFields(rd, s, ctx, i) ==
    IF i > NumField(Type(s)) THEN UOk(Data(s), rd.pos)
    ELSE LET r == unmarshalValue(rd, RVA(Type(s).fields[i].type, Data(s)[i], CanSet(s)),
                                 beginStructFieldCtx(ctx, s, i))
             v == [Data(s) EXCEPT ![i] = r.v]
         IN IF r.err # Ok THEN UErr(r.err, v, r.pos)
            ELSE unmarshalFields(Advance(rd, r.pos), RVA(Type(s), v, CanSet(s)), ctx, i + 1)

unmarshalStruct(rd, s, ctx) ==
    CASE ctx.options.sized /\ ~arrivedFromPointer(ctx, s) ->
            UErr("sized struct is not referenced via a pointer", Data(s), rd.pos)
      [] ~(ctx.options.sized /\ ~arrivedFromPointer(ctx, s)) /\ isUnion(Type(s)) ->
            unmarshalUnion(rd, s, ctx)
      [] OTHER -> unmarshalFields(rd, s, ctx, 1)

\* the loop over the elements lo..hi of the slice, split in halves so that
\* the nesting of the evaluation stays logarithmic in the length; returns
\* [err, v, pos] with v the elements lo..hi afterwards (the elements of a
\* slice are always addressable; an element's context takes only the type
\* of its container from a slice)
unmarshalElems(rd, slice, ctx, lo, hi) ==
    IF lo > hi THEN UOk(<<>>, rd.pos)
    ELSE IF lo = hi
    THEN LET r == unmarshalValue(rd, RVA(Type(slice).elem, Data(slice).elems[lo], TRUE),
                                 beginSliceElemCtx(ctx, slice))
         IN [err |-> r.err, v |-> <<r.v>>, pos |-> r.pos]
    ELSE LET mid == (lo + hi) \div 2
             left == unmarshalElems(rd, slice, ctx, lo, mid)
         IN IF left.err # Ok
            THEN UErr(left.err, left.v \o SubSeq(Data(slice).elems, mid + 1, hi), left.pos)
            ELSE LET right == unmarshalElems(Advance(rd, left.pos), slice, ctx, mid + 1, hi)
                 IN [err |-> right.err, v |-> left.v \o right.v, pos |-> right.pos]

unmarshalSlice(rd, slice, ctx) ==
    IF Type(slice) = rawBytesType
    THEN IF Data(slice).nil THEN UErr("nil raw byte slice", Data(slice), rd.pos)
         ELSE LET r == ReadFull(rd, Len(Data(slice).elems))
                  n == Len(r.bytes)
              IN IF r.err # Ok
                 THEN \* a short read fills the front of the slice
                      UErr(r.err, MkSlice(r.bytes \o SubSeq(Data(slice).elems, n + 1,
                                                           Len(Data(slice).elems))), r.pos)
                 ELSE UOk(MkSlice(r.bytes), r.pos)
    ELSE LET size == CASE ctx.options.raw -> [err |-> Ok, n |-> 0, pos |-> rd.pos]
                       [] ~ctx.options.raw /\ isSizedBuffer(Type(slice)) -> binaryRead(rd, 2)
                       [] OTHER -> binaryRead(rd, 4)
             l == size.n
             alloc == IF Data(slice).nil THEN MakeSlice(Type(slice), l) ELSE Data(slice)
         IN IF ctx.options.raw /\ Data(slice).nil THEN UErr("nil raw slice", Data(slice), rd.pos)
            ELSE IF size.err # Ok THEN UErr("cannot read size", Data(slice), size.pos)
            ELSE IF Data(slice).nil /\ ~CanSet(slice) THEN UErr("cannot set slice", Data(slice), size.pos)
            ELSE LET r == unmarshalElems(Advance(rd, size.pos),
                                         RVA(Type(slice), alloc, CanSet(slice)), ctx,
                                         1, Len(alloc.elems))
                 IN [err |-> r.err, v |-> MkSlice(r.v), pos |-> r.pos]

unmarshalValue(rd, val, ctx0) ==
    IF hasCustomMarshallerImpl(Type(val))
    THEN UErr("custom marshaller", Data(val), rd.pos)
    ELSE
    LET ctx == EnterContext(ctx0)
    IN CASE Kind(Type(val)) = "ptr" -> unmarshalPtr(rd, val, ctx)
         [] Kind(Type(val)) = "struct" -> unmarshalStruct(rd, val, ctx)
         [] Kind(Type(val)) = "slice" -> unmarshalSlice(rd, val, ctx)
         [] Kind(Type(val)) \in {"array", "chan", "func", "interface", "map", "unsafe.Pointer"} ->
                UErr("unsupported kind", Data(val), rd.pos)
         [] OTHER ->
                IF ~CanSet(val) THEN UErr("cannot unmarshal non-addressable type", Data(val), rd.pos)
                ELSE LET r == binaryRead(rd, Type(val).size)
                     IN IF r.err # Ok THEN UErr(r.err, Data(val), r.pos)
                        ELSE UOk(r.n, r.pos)

\* the loop of UnmarshalFromReader over the destinations ds[i..]; every
\* destination is the pointee of a non-nil pointer argument.  Returns
\* [err, dsts, pos]
RECURSIVE unmarshalAll(_, _, _)
\* the rest of the loop once unmarshalValue returned r for ds[i]
unmarshalRest(rd, ds, i, r) ==
    IF r.err # Ok
    THEN [err |-> r.err, dsts |-> [ds EXCEPT ![i] = RV(Type(ds[i]), r.v)], pos |-> r.pos]
    ELSE unmarshalAll(Advance(rd, r.pos), [ds EXCEPT ![i] = RV(Type(ds[i]), r.v)], i + 1)

unmarshalAll(rd, ds, i) ==
    IF i > Len(ds) THEN [err |-> Ok, dsts |-> ds, pos |-> rd.pos]
    ELSE unmarshalRest(rd, ds, i,
                       unmarshalValue(rd, RVA(Type(ds[i]), Data(ds[i]), TRUE), NilContext))

UnmarshalFromReader(rd, ds) == unmarshalAll(rd, ds, 1)

\* UnmarshalFromBytes(b, vals...): [err, n, dsts], n the count returned and
\* dsts the destinations after the call
Consumed(b, r) ==
    IF r.err # Ok THEN [err |-> r.err, n |-> 0, dsts |-> r.dsts]
    ELSE [err |-> Ok, n |-> Len(b) - (Len(b) - r.pos), dsts |-> r.dsts]

UnmarshalFromBytes(b, ds) == Consumed(b, UnmarshalFromReader(NewReader(b), ds))


(***************************************************************************)
(* The caller of the decoder                                               *)
(***************************************************************************)
\* the command codes the two commands of the repository pass
Commands == {"CommandReadClock", "CommandStartAuthSession"}

\* every bit below LowBits is enumerated; bits above are sampled
LowBits == 12

HighBits == {16, 31}

Statuses == {lo \cup hi : lo \in SUBSET (0..(LowBits - 1)), hi \in SUBSET HighBits}

NoCommand == "none"

InitDecode ==
    /\ pc = "idle"
    /\ command = NoCommand
    /\ resp = Success
    /\ err = NoError
    /\ vals = <<>>
    /\ mres = <<>>
    /\ input = <<>>
    /\ dsts = <<>>
    /\ ures = <<>>

Decode ==
    /\ pc = "idle"
    /\ \E c \in Commands, r \in Statuses :
        /\ command' = c
        /\ resp' = r
        /\ err' = DecodeResponseCode(c, r)
    /\ pc' = "decoded"
    /\ UNCHANGED codecVars

NextDecode == Decode

SpecDecode == InitDecode /\ [][NextDecode]_vars

(***************************************************************************)
(* The types and values the caller uses                                    *)
(***************************************************************************)
\* the longest slice enumerated
MaxLen == 2

\* the most values passed to one call
MaxArgs == 2

\* the selector type of the union container (a 16-bit algorithm identifier)
AlgorithmId == TUint("AlgorithmId", 2)

ByteSlice == TSlice(Uint8)

TestEmpty == TStruct("TestEmpty", <<>>, FALSE)

TestSizedStruct ==
    TStruct("TestSizedStruct",
            <<FieldOf("A", Uint16, NoTag), FieldOf("B", ByteSlice, NoTag)>>, FALSE)

TestStructWithSizedField ==
    TStruct("TestStructWithSizedField",
            <<FieldOf("S", TPtr(TestSizedStruct), <<TagPart("sized", "")>>),
              FieldOf("C", Uint8, NoTag)>>, FALSE)

TestStructWithSizedEmpty ==
    TStruct("TestStructWithSizedEmpty",
            <<FieldOf("S", TPtr(TestEmpty), <<TagPart("sized", "")>>)>>, FALSE)

TestStructWithRawField ==
    TStruct("TestStructWithRawField",
            <<FieldOf("A", Uint8, NoTag),
              FieldOf("B", TSlice(Uint16), <<TagPart("raw", "")>>)>>, FALSE)

TestUnion == TStruct("TestUnion", <<FieldOf("A", TInterface, NoTag)>>, TRUE)

TestUnionContainer ==
    TStruct("TestUnionContainer",
            <<FieldOf("Select", AlgorithmId, NoTag),
              FieldOf("Union", TestUnion, <<TagPart("selector", "Select")>>)>>, FALSE)

TestStructSizedByValue ==
    TStruct("TestStructSizedByValue",
            <<FieldOf("S", TestSizedStruct, <<TagPart("sized", "")>>)>>, FALSE)

TestStructWithInterface ==
    TStruct("TestStructWithInterface",
            <<FieldOf("A", Uint8, NoTag), FieldOf("I", TInterface, NoTag)>>, FALSE)

\* the types an interface field is given values of
HeldTypes == {Uint16, ByteSlice, Uint8, rawBytesType, TestEmpty}

TopTypes == {Uint8, Uint16, Uint32, TPtr(Uint16), ByteSlice, rawBytesType, TSlice(Uint16),
             TestSizedStruct, TPtr(TestSizedStruct), TestStructWithSizedField,
             TestStructWithSizedEmpty, TestStructWithRawField, TestUnionContainer,
             TestStructSizedByValue, TestStructWithInterface}

UintSamples(t) ==
    CASE t.name = "AlgorithmId" -> 0..3
      [] t.name = "uint8" -> {0, 255}
      [] OTHER -> {0, FromBigEndian([i \in 1..t.size |-> i])}

SeqsUpTo(S, n) == UNION {[1..k -> S] : k \in 0..n}

RECURSIVE ValuesOf(_)
RECURSIVE FieldValues(_, _)
\* the payloads of the fields i.. of a struct type, as sequences
FieldValues(t, i) ==
    IF i > Len(t.fields) THEN {<<>>}
    ELSE {<<v>> \o rest : v \in ValuesOf(t.fields[i].type), rest \in FieldValues(t, i + 1)}

ValuesOf(t) ==
    CASE t.kind = "uint" -> UintSamples(t)
      [] t.kind = "ptr" -> {<<>>} \cup {<<v>> : v \in ValuesOf(t.elem)}
      [] t.kind = "slice" ->
            {NilSlice} \cup {MkSlice(e) : e \in SeqsUpTo(ValuesOf(t.elem), MaxLen)}
      [] t.kind = "interface" ->
            {<<>>} \cup UNION {{<<RV(h, v)>> : v \in ValuesOf(h)} : h \in HeldTypes}
      [] t.kind = "struct" -> FieldValues(t, 1)

TopValues == UNION {{RV(t, v) : v \in ValuesOf(t)} : t \in TopTypes}

\* lengths one past what a 16-bit size field holds
MaxUint16 == 65535

Zeros(n) == [i \in 1..n |-> 0]

\* a byte slice of 65536 bytes, and a sized struct whose encoding is 65536
\* bytes long (2 for A, 2 for the size of B, 65532 for B)
BigValues ==
    {RV(ByteSlice, MkSlice(Zeros(MaxUint16 + 1))),
     RV(TestStructWithSizedField,
        <<<<<<0, MkSlice(Zeros(MaxUint16 + 1 - 4))>>>>, 255>>),
     RV(ByteSlice, MkSlice(Zeros(MaxUint16)))}

\* the values passed together with others
ListValues ==
    {RV(Uint8, 255), RV(TSlice(Uint16), MkSlice(<<258>>)),
     RV(TestStructWithInterface, <<7, <<>>>>),
     RV(TestStructWithSizedField, <<<<>>, 255>>)}

ArgLists == UNION {[1..k -> ListValues] : k \in 1..MaxArgs}

\* the destination a caller prepares for decoding a value like v: the zero
\* value of the type, with RawBytes and raw-tagged slices made to v's length
RECURSIVE Dest(_, _, _)
Dest(t, v, raw) ==
    CASE t.kind = "uint" -> 0
      [] t.kind = "ptr" -> <<>>
      [] t.kind = "interface" -> <<>>
      [] t.kind = "slice" ->
            IF t = rawBytesType \/ raw THEN MkSlice([i \in 1..Len(v.elems) |-> Zero(t.elem)])
            ELSE NilSlice
      [] t.kind = "struct" ->
            [i \in 1..Len(t.fields) |->
                Dest(t.fields[i].type, v[i], parseFieldOptions(t.fields[i].tag).raw)]

Dests(vs) == [i \in 1..Len(vs) |-> RV(Type(vs[i]), Dest(Type(vs[i]), Data(vs[i]), FALSE))]

(***************************************************************************)
(* The caller of the codec                                                 *)
(***************************************************************************)
Init ==
    /\ pc = "idle"
    /\ command = NoCommand
    /\ resp = Success
    /\ err = NoError
    /\ vals = <<>>
    /\ mres = <<>>
    /\ input = <<>>
    /\ dsts = <<>>
    /\ ures = <<>>

\* MarshalToBytes(v) of one value
Marshal ==
    /\ pc = "idle"
    /\ \E v \in TopValues \cup BigValues :
        /\ vals' = <<v>>
        /\ mres' = MarshalToBytes(<<v>>)
    /\ pc' = "marshalled"
    /\ UNCHANGED <<input, dsts, ures>>
    /\ UNCHANGED decVars

\* MarshalToBytes(vals...) and MarshalToWriter(buf, vals...) into a
\* bytes.Buffer of several values, and MarshalToWriter of each value alone
MarshalMany ==
    /\ pc = "idle"
    /\ \E args \in ArgLists :
        /\ vals' = args
        /\ mres' = [all |-> MarshalToBytes(args),
                    writer |-> MarshalToWriter(NeverFails, args),
                    each |-> [i \in 1..Len(args) |-> MarshalToWriter(NeverFails, <<args[i]>>)]]
    /\ pc' = "marshalledMany"
    /\ UNCHANGED <<input, dsts, ures>>
    /\ UNCHANGED decVars

\* UnmarshalFromBytes of the marshalled bytes into fresh destinations
RoundTrip ==
    /\ pc = "marshalled"
    /\ mres.err = Ok
    /\ input' = mres.bytes
    /\ dsts' = Dests(vals)
    /\ ures' = UnmarshalFromBytes(mres.bytes, Dests(vals))
    /\ pc' = "roundtrip"
    /\ UNCHANGED <<vals, mres>>
    /\ UNCHANGED decVars

Next == Marshal \/ MarshalMany \/ RoundTrip

Spec == Init /\ [][Next]_vars


(***************************************************************************)
(* The caller that decodes bytes it received                               *)
(***************************************************************************)
\* the longest input of arbitrary bytes
MaxInput == 7

\* the values the bytes of an input take
InputBytes == {0, 1}

Inputs == SeqsUpTo(InputBytes, MaxInput)

\* inputs for a list, whose 4-byte length has its two high bytes zero, and
\* the inputs that end inside them
ListInputs == {<<0, 0>> \o b : b \in Inputs} \cup {<<>>, <<0>>}

\* the types decoded whose lengths are 2 bytes wide
SizedTypes == {ByteSlice, TestSizedStruct, TestStructWithSizedField}

\* UnmarshalFromBytes(b, &dst) with dst the zero value of its type
Unmarshal(b, t) ==
    /\ pc = "idle"
    /\ input' = b
    /\ dsts' = <<RV(t, Zero(t))>>
    /\ ures' = UnmarshalFromBytes(b, <<RV(t, Zero(t))>>)
    /\ pc' = "unmarshalled"
    /\ UNCHANGED <<vals, mres>>
    /\ UNCHANGED decVars

UnmarshalSized == \E b \in Inputs : \E t \in SizedTypes : Unmarshal(b, t)

UnmarshalList == \E b \in ListInputs : Unmarshal(b, TSlice(Uint16))

NextUnmarshal == UnmarshalSized \/ UnmarshalList

SpecUnmarshal == Init /\ [][NextUnmarshal]_vars


(***************************************************************************)
(* Concurrent marshal calls.  Every goroutine runs MarshalToWriter(buf, v) *)
(* on its own value and its own bytes.Buffer; a step of a goroutine is one *)
(* activation of marshalValue.  The state of goroutine g is mres[g]:       *)
(* stack, the activations still to run (first the next one), each the      *)
(* value and the context it was called with; bufs, the buffers being       *)
(* written (the caller's first, then the scratch buffers of the sized      *)
(* structs being marshalled); err, the error returned.  The package's      *)
(* variables (rawBytesType, unionType, customMarshallerType) are only      *)
(* read, and every context is made by a begin*Ctx call of the activation   *)
(* that uses it.                                                           *)
(***************************************************************************)
\* the number of goroutines
NumProcs == 2

Procs == 1..NumProcs

\* the values the goroutines marshal
ConcValues ==
    {RV(TestStructWithSizedField, <<<<<<258, MkSlice(<<255>>)>>>>, 255>>),
     RV(TestStructWithRawField, <<255, MkSlice(<<258, 0>>)>>),
     RV(TestUnionContainer, <<2, <<<<RV(ByteSlice, MkSlice(<<0, 255>>))>>>>>>),
     RV(TestStructSizedByValue, <<<<258, MkSlice(<<>>)>>>>),
     RV(TPtr(Uint16), <<>>)}

\* an activation marshalValue(buf, v, ctx) still to run
Call(v, ctx) == [kind |-> "marshalValue", v |-> v, ctx |-> ctx]

\* the rest of marshalStruct for a sized struct, run when the marshalValue
\* into tmpBuf has returned
WriteSized == [kind |-> "writeSized", v |-> InvalidValue, ctx |-> NilContext]

Goroutine(stack, bufs, e) == [stack |-> stack, bufs |-> bufs, err |-> e]

\* the goroutine g after writing bs to its innermost buffer
Emit(g, bs) ==
    Goroutine(Tail(g.stack), [g.bufs EXCEPT ![Len(g.bufs)] = @ \o bs], Ok)

\* the goroutine g after its activation called marshalValue for calls, in order
Descend(g, calls) == Goroutine(calls \o Tail(g.stack), g.bufs, Ok)

\* the goroutine g after its activation returned the error e, which every
\* caller returns in turn
Fail(g, e) == Goroutine(<<>>, g.bufs, e)


\* one activation of marshalUnion
stepUnion(g, u, ctx) ==
    IF ~IsValid(ctx.container) THEN Fail(g, "not inside a container")
    ELSE IF ~isValidUnionContainer(Type(ctx.container))
    THEN Fail(g, "not inside a valid union container")
    ELSE IF ctx.options.selector = ""
    THEN Fail(g, "no selector member defined in container")
    ELSE
    LET selectorVal == FieldByName(ctx.container, ctx.options.selector)
    IN IF ~IsValid(selectorVal) THEN Fail(g, "invalid selector member name")
       ELSE
       LET sel == UnionSelect(u, selectorVal)
           selectedType == sel.type
           f == Data(u)[1]
           d == IF Kind(Type(u).fields[1].type) = "interface"
                THEN IF f = <<>> THEN RV(selectedType, Zero(selectedType))
                     ELSE f[1]
                ELSE RV(Type(u).fields[1].type, f)
       IN IF sel.err # Ok THEN Fail(g, "cannot select union data type")
          ELSE IF selectedType = NilType THEN Descend(g, <<>>)
          ELSE IF Type(d) # selectedType
          THEN IF ~ConvertibleTo(Type(d), selectedType)
               THEN Fail(g, "data has incorrect type")
               ELSE Descend(g, <<Call(Convert(d, selectedType), beginUnionDataCtx(ctx, u))>>)
          ELSE Descend(g, <<Call(d, beginUnionDataCtx(ctx, u))>>)

\* one activation of marshalValue(buf, val, ctx0) up to its calls of
\* marshalValue
stepValue(g, val, ctx0) ==
    LET ctx == EnterContext(ctx0)
        t == Type(val)
    IN CASE Kind(t) = "ptr" ->
              IF Data(val) = <<>>
              THEN IF ctx.options.sized /\ Kind(t.elem) = "struct"
                   THEN Emit(g, BigEndian(0, 2))
                   ELSE Descend(g, <<Call(RV(t.elem, Zero(t.elem)), beginPtrElemCtx(ctx, val))>>)
              ELSE Descend(g, <<Call(RV(t.elem, Data(val)[1]), beginPtrElemCtx(ctx, val))>>)
         [] Kind(t) = "struct" ->
              CASE ctx.options.sized /\ isUnion(t) -> Fail(g, "cannot be both sized and a union")
                [] ctx.options.sized /\ ~isUnion(t) /\ ~arrivedFromPointer(ctx, val) ->
                      Fail(g, "sized struct is not referenced via a pointer")
                [] ctx.options.sized /\ ~isUnion(t) /\ arrivedFromPointer(ctx, val) ->
                      Goroutine(<<Call(val, beginSizedStructCtx(ctx, val)), WriteSized>>
                                    \o Tail(g.stack),
                                Append(g.bufs, <<>>), Ok)
                [] ~ctx.options.sized /\ isUnion(t) -> stepUnion(g, val, ctx)
                [] OTHER ->
                      Descend(g, [i \in 1..NumField(t) |->
                                     Call(RV(t.fields[i].type, Data(val)[i]),
                                          beginStructFieldCtx(ctx, val, i))])
         [] Kind(t) = "slice" ->
              IF t = rawBytesType THEN Emit(g, Data(val).elems)
              ELSE LET n == Len(Data(val).elems)
                       size == CASE ctx.options.raw -> <<>>
                                 [] ~ctx.options.raw /\ isSizedBuffer(t) ->
                                        BigEndian(Truncate(n, 2), 2)
                                 [] OTHER -> BigEndian(Truncate(n, 4), 4)
                   IN Goroutine([i \in 1..n |-> Call(RV(t.elem, Data(val).elems[i]),
                                                     beginSliceElemCtx(ctx, val))]
                                    \o Tail(g.stack),
                                [g.bufs EXCEPT ![Len(g.bufs)] = @ \o size], Ok)
         [] Kind(t) \in {"array", "chan", "func", "interface", "map", "unsafe.Pointer"} ->
              Fail(g, "unsupported kind")
         [] OTHER -> Emit(g, BigEndian(Truncate(Data(val), t.size), t.size))

\* the size field and tmpBuf.WriteTo(buf) of a sized struct
stepWriteSized(g) ==
    LET tmp == g.bufs[Len(g.bufs)]
        outer == SubSeq(g.bufs, 1, Len(g.bufs) - 1)
    IN Goroutine(Tail(g.stack),
                 [outer EXCEPT ![Len(outer)] = @ \o BigEndian(Truncate(Len(tmp), 2), 2) \o tmp],
                 Ok)

\* a step of goroutine p with the context kept in one variable of the
\* package, which holds the context of the activation that goroutine 1 runs
\* next
marshalStep_SharedContext(gs, p) ==
    LET item == Head(gs[p].stack)
        shared == IF gs[1].stack # <<>> /\ Head(gs[1].stack).kind = "marshalValue"
                  THEN Head(gs[1].stack).ctx ELSE item.ctx
    IN IF item.kind = "writeSized" THEN stepWriteSized(gs[p])
       ELSE stepValue(gs[p], item.v, shared)

\* the next step of goroutine p among the goroutines gs: it reads and writes
\* the state of p alone
marshalStep(gs, p) ==
    LET item == Head(gs[p].stack)
    IN IF item.kind = "writeSized" THEN stepWriteSized(gs[p])
       ELSE stepValue(gs[p], item.v, item.ctx)

\* go MarshalToWriter(buf[p], v[p]) for every p
Go ==
    /\ pc = "idle"
    /\ \E vs \in [Procs -> ConcValues] :
        /\ vals' = vs
        /\ mres' = [p \in Procs |-> Goroutine(<<Call(vs[p], NilContext)>>, <<<<>>>>, Ok)]
    /\ pc' = "running"
    /\ UNCHANGED <<input, dsts, ures>>
    /\ UNCHANGED decVars

\* the scheduler runs one step of a goroutine that has not returned
Step(p) ==
    /\ pc = "running"
    /\ mres[p].stack # <<>>
    /\ mres' = [mres EXCEPT ![p] = marshalStep(mres, p)]
    /\ UNCHANGED <<pc, vals, input, dsts, ures>>
    /\ UNCHANGED decVars

NextConcurrent == Go \/ \E p \in Procs : Step(p)

SpecConcurrent == Init /\ [][NextConcurrent]_vars


(***************************************************************************)
(* The caller that marshals union containers, and decodes into union       *)
(* containers it used before                                               *)
(***************************************************************************)
UnionValues == {RV(TestUnionContainer, v) : v \in ValuesOf(TestUnionContainer)}

\* the destinations: the data field is nil, or holds what an earlier use left
UnionDests ==
    {RV(TestUnionContainer, <<0, <<f>>>>) :
        f \in {<<>>, <<RV(Uint16, 9)>>, <<RV(TPtr(Uint16), <<9>>)>>,
               <<RV(ByteSlice, MkSlice(<<7>>))>>}}

\* the longest data after the selector
MaxData == 4

\* a selector, then arbitrary bytes
UnionInputs == {<<0, x>> \o b : x \in UintSamples(AlgorithmId), b \in SeqsUpTo(InputBytes, MaxData)}

\* MarshalToBytes(c) of a union container
MarshalUnion ==
    /\ pc = "idle"
    /\ \E c \in UnionValues :
        /\ vals' = <<c>>
        /\ mres' = MarshalToBytes(<<c>>)
    /\ pc' = "marshalled"
    /\ UNCHANGED <<input, dsts, ures>>
    /\ UNCHANGED decVars

\* UnmarshalFromBytes(b, &d) with d a value the caller holds
UnmarshalInto(b, d) ==
    /\ pc = "idle"
    /\ input' = b
    /\ dsts' = <<d>>
    /\ ures' = UnmarshalFromBytes(b, <<d>>)
    /\ pc' = "unmarshalledInto"
    /\ UNCHANGED <<vals, mres>>
    /\ UNCHANGED decVars

UnmarshalUnion == \E b \in UnionInputs : \E d \in UnionDests : UnmarshalInto(b, d)

NextUnion == MarshalUnion \/ UnmarshalUnion

SpecUnion == Init /\ [][NextUnion]_vars


(***************************************************************************)
(* The caller whose containers tag a union as sized                        *)
(***************************************************************************)
TestSizedUnionByValue ==
    TStruct("TestSizedUnionByValue",
            <<FieldOf("Select", AlgorithmId, NoTag),
              FieldOf("Union", TestUnion,
                      <<TagPart("sized", ""), TagPart("selector", "Select")>>)>>, FALSE)

TestSizedUnionByPointer ==
    TStruct("TestSizedUnionByPointer",
            <<FieldOf("Select", AlgorithmId, NoTag),
              FieldOf("Union", TPtr(TestUnion),
                      <<TagPart("sized", ""), TagPart("selector", "Select")>>)>>, FALSE)

SizedUnionTypes == {TestSizedUnionByValue, TestSizedUnionByPointer}

SizedUnionValues == UNION {{RV(t, v) : v \in ValuesOf(t)} : t \in SizedUnionTypes}

\* the values of the bytes after the selector
SizedUnionBytes == {0, 1, 2}

\* a selector, then bytes that start with the size of the sized struct
SizedUnionInputs ==
    {<<0, x>> \o b : x \in UintSamples(AlgorithmId), b \in SeqsUpTo(SizedUnionBytes, MaxData)}

\* MarshalToBytes(c) of a container of a sized union
MarshalSizedUnion ==
    /\ pc = "idle"
    /\ \E c \in SizedUnionValues :
        /\ vals' = <<c>>
        /\ mres' = MarshalToBytes(<<c>>)
    /\ pc' = "marshalled"
    /\ UNCHANGED <<input, dsts, ures>>
    /\ UNCHANGED decVars

UnmarshalSizedUnion == \E b \in SizedUnionInputs : \E t \in SizedUnionTypes : Unmarshal(b, t)

NextSizedUnion == MarshalSizedUnion \/ UnmarshalSizedUnion

SpecSizedUnion == Init /\ [][NextSizedUnion]_vars


(***************************************************************************)
(* The caller that decodes into slices, some of which it used before       *)
(***************************************************************************)
\* destinations with a 2-byte length prefix: nil, or holding earlier elements
BufferDests ==
    {RV(ByteSlice, NilSlice), RV(ByteSlice, MkSlice(<<7>>)), RV(ByteSlice, MkSlice(<<7, 7, 7>>))}

\* destinations with a 4-byte length prefix
ListDests == {RV(TSlice(Uint16), NilSlice), RV(TSlice(Uint16), MkSlice(<<7>>))}

\* destinations with a raw-tagged slice: nil, or made to the length expected
RawDests ==
    {RV(TestStructWithRawField, <<0, s>>) :
        s \in {NilSlice, MkSlice(<<>>), MkSlice(<<7>>), MkSlice(<<7, 7>>)}}

UnmarshalBuffer == \E b \in Inputs : \E d \in BufferDests : UnmarshalInto(b, d)

UnmarshalListInto == \E b \in ListInputs : \E d \in ListDests : UnmarshalInto(b, d)

UnmarshalRaw == \E b \in Inputs : \E d \in RawDests : UnmarshalInto(b, d)

NextSlices == UnmarshalBuffer \/ UnmarshalListInto \/ UnmarshalRaw

SpecSlices == Init /\ [][NextSlices]_vars


(***************************************************************************)
(* The caller that decodes a struct with a sized struct pointer followed   *)
(* by another field                                                        *)
(***************************************************************************)
\* destinations: the pointer is nil, or points at an earlier struct
SizedDests ==
    {RV(TestStructWithSizedField, <<<<>>, 9>>),
     RV(TestStructWithSizedField, <<<<<<9, NilSlice>>>>, 9>>)}

\* the largest size announced for the sized struct
MaxSize == 5

\* the longest input after the size
MaxPayload == 6

\* a size, then arbitrary bytes
SizedInputs == {<<0, n>> \o b : n \in 0..MaxSize, b \in SeqsUpTo(InputBytes, MaxPayload)}

UnmarshalSizedInto == \E b \in SizedInputs : \E d \in SizedDests : UnmarshalInto(b, d)

NextSized == UnmarshalSizedInto

SpecSized == Init /\ [][NextSized]_vars


(***************************************************************************)
(* The caller that marshals to a writer that can fail: the first bud       *)
(* calls of Write succeed, every later one returns an error                *)
(***************************************************************************)
\* the most calls of Write that succeed before the writer fails
MaxWrites == 3

\* MarshalToWriter(w, v) of one value
MarshalToSink ==
    /\ pc = "idle"
    /\ \E v \in TopValues : \E bud \in 0..MaxWrites :
        /\ vals' = <<v>>
        /\ mres' = [bud |-> bud, res |-> MarshalToWriter(bud, <<v>>)]
    /\ pc' = "written"
    /\ UNCHANGED <<input, dsts, ures>>
    /\ UNCHANGED decVars

NextSink == MarshalToSink

SpecSink == Init /\ [][NextSink]_vars


(***************************************************************************)
(* Claims about DecodeResponseCode, checked under SpecDecode               *)
(***************************************************************************)
ErrorKinds == {"TPM1Error", "TPMVendorError", "TPMWarning", "TPMError",
               "TPMParameterError", "TPMSessionError", "TPMHandleError"}

Bit(r, n) == n \in r

\* the bits lo..hi of r as a number
Field(r, lo, hi) == SumBits({b - lo : b \in {x \in r : x >= lo /\ x <= hi}})

\* C1: DecodeResponseCode returns no error exactly when the status is Success
\* (0); for every other status it returns one of the seven error kinds, and the
\* error carries the command that was passed in.
C1_SuccessIffNoError ==
    pc = "decoded" =>
        /\ (err = NoError) <=> (resp = {})
        /\ resp # {} => /\ err.kind \in ErrorKinds
                        /\ err.Command = command

C1_Witness == pc = "decoded" /\ resp # {} /\ Bit(resp, 31) /\ err.kind = "TPM1Error"

\* C2: a non-Success status with bit 7 clear is classified in the order
\* version bit (8) clear -> TPM1Error with the raw status; vendor bit (10) set ->
\* TPMVendorError with the raw status; severity bit (11) set -> TPMWarning with
\* status & 0x7f; otherwise TPMError with status & 0x7f.  0x100 is a TPMError
\* with code 0 and 0x900 a TPMWarning with code 0.
C2_Format0Priority ==
    (pc = "decoded" /\ resp # {} /\ ~Bit(resp, 7)) =>
        /\ ~Bit(resp, 8) => err = TPM1Error(command, resp)
        /\ (Bit(resp, 8) /\ Bit(resp, 10)) => err = TPMVendorError(command, resp)
        /\ (Bit(resp, 8) /\ ~Bit(resp, 10) /\ Bit(resp, 11)) =>
              /\ err.kind = "TPMWarning"
              /\ err.Command = command
              /\ ToInt(err.Code) = Field(resp, 0, 6)
        /\ (Bit(resp, 8) /\ ~Bit(resp, 10) /\ ~Bit(resp, 11)) =>
              /\ err.kind = "TPMError"
              /\ err.Command = command
              /\ ToInt(err.Code) = Field(resp, 0, 6)
        /\ resp = U32(256) => (err.kind = "TPMError" /\ ToInt(err.Code) = 0)
        /\ resp = U32(2304) => (err.kind = "TPMWarning" /\ ToInt(err.Code) = 0)

C2_Witness ==
    /\ pc = "decoded"
    /\ resp = {8, 10, 11, 0}
    /\ err.kind = "TPMVendorError"

\* C3: a status with bit 7 set is classified in the order bit 6 set ->
\* TPMParameterError with index bits 8-11; bit 11 set -> TPMSessionError with
\* index bits 8-10; otherwise TPMHandleError with index bits 8-10.  The code is
\* status & 0x3f, and the bits above bit 11 do not influence the result.
C3_Format1Priority ==
    (pc = "decoded" /\ Bit(resp, 7)) =>
        /\ err.Command = command
        /\ ToInt(err.Code) = Field(resp, 0, 5)
        /\ Bit(resp, 6) =>
              /\ err.kind = "TPMParameterError"
              /\ err.Index = Field(resp, 8, 11)
              /\ err.Index \in 0..15
        /\ (~Bit(resp, 6) /\ Bit(resp, 11)) =>
              /\ err.kind = "TPMSessionError"
              /\ err.Index = Field(resp, 8, 10)
              /\ err.Index \in 0..7
        /\ (~Bit(resp, 6) /\ ~Bit(resp, 11)) =>
              /\ err.kind = "TPMHandleError"
              /\ err.Index = Field(resp, 8, 10)
              /\ err.Index \in 0..7
        /\ err = DecodeResponseCode(command, {b \in resp : b <= 11})

C3_Witness ==
    /\ pc = "decoded"
    /\ resp = {31, 11, 10, 8, 7, 6}
    /\ err.kind = "TPMParameterError"
    /\ err.Index = 13

\* C4 as stated: status 0x194 decodes to a TPMParameterError with index 1 and
\* code 0x14.
C4_Original ==
    (pc = "decoded" /\ resp = U32(404)) =>
        /\ err.kind = "TPMParameterError"
        /\ err.Index = 1
        /\ ToInt(err.Code) = 20

\* C4 as amended: bit 6 of 0x194 is clear, so status 0x194 decodes to a
\* TPMHandleError with index 1 and code 0x14.
C4_Status194IsHandleError ==
    (pc = "decoded" /\ resp = U32(404)) =>
        /\ err.kind = "TPMHandleError"
        /\ err.Command = command
        /\ err.Index = 1
        /\ ToInt(err.Code) = 20

C4_Witness == pc = "decoded" /\ resp = U32(404) /\ err # NoError

\* C5 as stated: status 0x814 decodes to a TPMSessionError with index 0 and
\* code 0x14.
C5_Original ==
    (pc = "decoded" /\ resp = U32(2068)) =>
        /\ err.kind = "TPMSessionError"
        /\ err.Index = 0
        /\ ToInt(err.Code) = 20

\* C5 as amended: bits 7 and 8 of 0x814 are clear, so status 0x814 decodes to a
\* TPM1Error carrying the raw status 0x814.
C5_Status814IsTPM1Error ==
    (pc = "decoded" /\ resp = U32(2068)) =>
        /\ err.kind = "TPM1Error"
        /\ err.Command = command
        /\ ToInt(err.Code) = 2068

C5_Witness == pc = "decoded" /\ resp = U32(2068) /\ command = "CommandReadClock"

(***************************************************************************)
(* Claims about the codec, checked under Spec                              *)
(***************************************************************************)
\* a payload with every nil slice replaced by the empty slice: values are
\* compared up to the difference between a nil and an empty slice
RECURSIVE Norm(_, _)
Norm(t, v) ==
    CASE t.kind = "uint" -> v
      [] t.kind = "ptr" -> IF v = <<>> THEN v ELSE <<Norm(t.elem, v[1])>>
      [] t.kind = "slice" ->
            IF t.elem.kind = "uint" THEN MkSlice(v.elems)
            ELSE MkSlice([i \in 1..Len(v.elems) |-> Norm(t.elem, v.elems[i])])
      [] t.kind = "interface" ->
            IF v = <<>> THEN v ELSE <<RV(Type(v[1]), Norm(Type(v[1]), Data(v[1])))>>
      [] t.kind = "struct" -> [i \in 1..Len(t.fields) |-> Norm(t.fields[i].type, v[i])]

\* the values a and b of one type are equal
Equal(a, b) == Type(a) = Type(b) /\ Norm(Type(a), Data(a)) = Norm(Type(b), Data(b))

\* the bytes MarshalToBytes gives for the payload v of type t
Encoding(t, v) == MarshalToBytes(<<RV(t, v)>>).bytes

\* the payload v of type t, met with the field options opts inside container,
\* is a value the wire format represents: every length fits its prefix, a
\* sized struct is reached through a pointer, an interface occurs only as the
\* data of a union, and a union holds exactly what its selector selects (a
\* value of the selected type, or nothing for "no data")
RECURSIVE Supported(_, _, _, _)
Supported(t, v, opts, container) ==
    CASE t.kind = "uint" -> TRUE
      [] t.kind = "ptr" ->
            IF opts.sized /\ t.elem.kind = "struct"
            THEN \/ v = <<>>
                 \/ /\ Supported(t.elem, v[1], [opts EXCEPT !.sized = FALSE], container)
                    /\ Len(Encoding(t.elem, v[1])) <= MaxUint16
            ELSE v = <<>> \/ Supported(t.elem, v[1], opts, container)
      [] t.kind = "slice" ->
            /\ (isSizedBuffer(t) /\ ~opts.raw) => Len(v.elems) <= MaxUint16
            /\ \/ t.elem.kind = "uint"
               \/ \A i \in 1..Len(v.elems) : Supported(t.elem, v.elems[i], NoOptions, RV(t, v))
      [] t.kind = "interface" -> FALSE
      [] t.kind = "struct" ->
            IF isUnion(t)
            THEN /\ ~opts.sized
                 /\ IsValid(container)
                 /\ opts.selector # ""
                 /\ IsValid(FieldByName(container, opts.selector))
                 /\ LET sel == UnionSelect(RV(t, v), FieldByName(container, opts.selector))
                    IN /\ sel.err = Ok
                       /\ IF sel.type = NilType THEN v[1] = <<>>
                          ELSE /\ v[1] # <<>>
                               /\ Type(v[1][1]) = sel.type
                               /\ Supported(sel.type, Data(v[1][1]), NoOptions, RV(t, v))
            ELSE /\ ~opts.sized
                 /\ \A i \in 1..Len(t.fields) :
                       Supported(t.fields[i].type, v[i], parseFieldOptions(t.fields[i].tag),
                                 RV(t, v))

SupportedValue(x) == Supported(Type(x), Data(x), NoOptions, InvalidValue)

\* what decoding the encoding of the payload v of type t gives: v, with every
\* nil pointer that is not a sized struct pointer replaced by a pointer to the
\* zero value, and every sized struct pointer whose struct encodes to no bytes
\* replaced by nil
RECURSIVE Expected(_, _, _)
Expected(t, v, sized) ==
    CASE t.kind = "uint" -> v
      [] t.kind = "ptr" ->
            IF sized /\ t.elem.kind = "struct"
            THEN IF v = <<>> THEN v
                 ELSE IF Encoding(t.elem, v[1]) = <<>> THEN <<>>
                 ELSE <<Expected(t.elem, v[1], FALSE)>>
            ELSE <<Expected(t.elem, IF v = <<>> THEN Zero(t.elem) ELSE v[1], sized)>>
      [] t.kind = "slice" ->
            IF t.elem.kind = "uint" THEN v
            ELSE [v EXCEPT !.elems = [i \in 1..Len(v.elems) |-> Expected(t.elem, v.elems[i], FALSE)]]
      [] t.kind = "interface" ->
            IF v = <<>> THEN v
            ELSE <<RV(Type(v[1]), Expected(Type(v[1]), Data(v[1]), FALSE))>>
      [] t.kind = "struct" ->
            [i \in 1..Len(t.fields) |->
                Expected(t.fields[i].type, v[i], parseFieldOptions(t.fields[i].tag).sized)]

ExpectedValue(x) == RV(Type(x), Expected(Type(x), Data(x), FALSE))

\* C6 as stated: for every supported value v, unmarshalling the bytes
\* MarshalToBytes(v) gives into a destination of v's type succeeds and yields
\* a value equal to v, nil pointers included.
C6_Original ==
    (pc = "roundtrip" /\ SupportedValue(vals[1])) =>
        /\ ures.err = Ok
        /\ Equal(ures.dsts[1], vals[1])

\* C6 as amended: for every supported value v, MarshalToBytes(v) succeeds and
\* unmarshalling its bytes into a destination of v's type succeeds, consumes
\* all the bytes and yields v, except that a nil pointer that is not a sized
\* struct pointer comes back as a pointer to the zero value of its type, and a
\* non-nil sized struct pointer whose struct encodes to no bytes comes back
\* nil.
C6_RoundTripUpToNilPointers ==
    /\ (pc = "marshalled" /\ SupportedValue(vals[1])) => mres.err = Ok
    /\ (pc = "roundtrip" /\ SupportedValue(vals[1])) =>
          /\ ures.err = Ok
          /\ ures.n = Len(input)
          /\ Equal(ures.dsts[1], ExpectedValue(vals[1]))

C6_Witness ==
    /\ pc = "roundtrip"
    /\ vals[1] = RV(TestStructWithSizedField, <<<<<<258, MkSlice(<<255, 0>>)>>>>, 255>>)
    /\ SupportedValue(vals[1])
    /\ input = <<0, 6, 1, 2, 0, 2, 255, 0, 255>>
    /\ ures.dsts[1] = vals[1]

\* the sinks of the results rs[1..n], one after the other
RECURSIVE Concat(_, _)
Concat(rs, n) == IF n = 0 THEN <<>> ELSE Concat(rs, n - 1) \o rs[n].sink

\* the indexes of the values that fail to marshal on their own
Failing == {i \in 1..Len(vals) : mres.each[i].err # Ok}

FirstFailing == CHOOSE i \in Failing : \A j \in Failing : i <= j

\* C7: MarshalToBytes(v1, ..., vn) and MarshalToWriter(sink, v1, ..., vn) emit
\* the encodings of the values in argument order with nothing between them.
\* When every value marshals, the output of both is the concatenation of the
\* outputs of the values marshalled alone; when some value fails, both return
\* an error, MarshalToBytes returns no bytes, and the sink has received the
\* encodings of the values before the first failing one and what that value
\* wrote before it failed, and nothing of the values after it.
C7_ArgumentOrderConcatenation ==
    pc = "marshalledMany" =>
        IF Failing = {}
        THEN /\ mres.all.err = Ok
             /\ mres.all.bytes = Concat(mres.each, Len(vals))
             /\ mres.writer.err = Ok
             /\ mres.writer.sink = mres.all.bytes
        ELSE /\ mres.all.err # Ok
             /\ mres.all.bytes = <<>>
             /\ mres.writer.err = mres.each[FirstFailing].err
             /\ mres.writer.sink = Concat(mres.each, FirstFailing)

C7_Witness ==
    /\ pc = "marshalledMany"
    /\ vals = <<RV(TSlice(Uint16), MkSlice(<<258>>)), RV(TestStructWithInterface, <<7, <<>>>>)>>
    /\ mres.all.err = "unsupported kind"
    /\ mres.writer.sink = <<0, 0, 0, 1, 1, 2, 7>>

\* the encodings of the elements of a slice of fixed-width integers
RECURSIVE ElemBytes(_, _, _)
ElemBytes(elems, size, n) ==
    IF n = 0 THEN <<>> ELSE ElemBytes(elems, size, n - 1) \o BigEndian(elems[n], size)

\* bs is a big-endian prefix of width bytes holding n, followed by body
IsPrefixed(bs, width, n, body) ==
    /\ Len(bs) = width + Len(body)
    /\ FromBigEndian(SubSeq(bs, 1, width)) = n
    /\ SubSeq(bs, width + 1, Len(bs)) = body

\* C8: a byte slice of length L is written as a 2-byte big-endian prefix
\* holding L followed by the L bytes; any other slice of N elements of fixed
\* width W as a 4-byte prefix holding N followed by the elements (4 + N*W
\* bytes); a raw-tagged slice and a RawBytes value are written with no prefix.
C8_LengthPrefixHoldsCount ==
    pc = "marshalled" =>
        LET t == Type(vals[1])
            v == Data(vals[1])
        IN /\ t = ByteSlice =>
                /\ mres.err = Ok
                /\ IsPrefixed(mres.bytes, 2, Len(v.elems), v.elems)
           /\ t = TSlice(Uint16) =>
                /\ mres.err = Ok
                /\ IsPrefixed(mres.bytes, 4, Len(v.elems),
                              ElemBytes(v.elems, 2, Len(v.elems)))
                /\ Len(mres.bytes) = 4 + Len(v.elems) * 2
           /\ t = rawBytesType => (mres.err = Ok /\ mres.bytes = v.elems)
           /\ t = TestStructWithRawField =>
                /\ mres.err = Ok
                /\ mres.bytes = <<v[1]>> \o ElemBytes(v[2].elems, 2, Len(v[2].elems))

\* C9: a sized struct reached through a non-nil pointer is written as a 2-byte
\* big-endian prefix holding the byte length of the struct's own encoding,
\* followed by exactly that encoding, which carries no second prefix; a nil
\* pointer to a sized struct is written as the two bytes 0x00 0x00.
C9_SizedStructPrefixHoldsLength ==
    (pc = "marshalled" /\ Type(vals[1]) \in {TestStructWithSizedField, TestStructWithSizedEmpty}) =>
        LET t == Type(vals[1])
            S == Data(vals[1])[1]
            rest == IF t = TestStructWithSizedField THEN <<Data(vals[1])[2]>> ELSE <<>>
            payload == Encoding(t.fields[1].type.elem, S[1])
        IN /\ mres.err = Ok
           /\ IF S = <<>> THEN mres.bytes = <<0, 0>> \o rest
              ELSE IsPrefixed(mres.bytes, 2, Len(payload), payload \o rest)

(***************************************************************************)
(* Claims about decoding received bytes, checked under SpecUnmarshal       *)
(***************************************************************************)
\* the input b ends inside a length prefix of width bytes, or before the
\* count elements of elemSize bytes that the prefix announces
EndsEarly(b, width, elemSize) ==
    \/ Len(b) < width
    \/ Len(b) < width + FromBigEndian(SubSeq(b, 1, width)) * elemSize

\* the input ends before what the first length prefix read for a destination
\* of type t announces
Truncated(b, t) ==
    CASE t = ByteSlice -> EndsEarly(b, 2, 1)
      [] t = TSlice(Uint16) -> EndsEarly(b, 4, 2)
      [] t = TestStructWithSizedField -> EndsEarly(b, 2, 1)
      [] t = TestSizedStruct -> Len(b) < 2 \/ EndsEarly(SubSeq(b, 3, Len(b)), 2, 1)

\* C10: whenever the input ends before the number of bytes announced by a
\* length prefix (list, sized byte buffer or sized struct) has been supplied, or
\* ends inside the prefix, UnmarshalFromBytes returns an error and reports 0
\* bytes consumed.
C10_TruncatedInputFails ==
    (pc = "unmarshalled" /\ Truncated(input, Type(dsts[1]))) =>
        /\ ures.err # Ok
        /\ ures.n = 0

(***************************************************************************)
(* Claims about concurrent calls, checked under SpecConcurrent             *)
(***************************************************************************)
\* a is a prefix of b
IsPrefix(a, b) == Len(a) <= Len(b) /\ a = SubSeq(b, 1, Len(a))

\* the goroutine has returned
Returned(g) == g.stack = <<>>

\* C11: concurrent marshal calls, each on its own value and its own buffer,
\* produce under every interleaving of their steps the bytes and the error
\* that the same call produces when run alone: at every moment the buffer of
\* a call holds a prefix of those bytes, and all of them once it has returned.
C11_ConcurrentEqualsSequential ==
    pc = "running" =>
        \A p \in Procs :
            LET alone == MarshalToWriter(NeverFails, <<vals[p]>>)
            IN /\ IsPrefix(mres[p].bufs[1], alone.sink)
               /\ Returned(mres[p]) =>
                     /\ mres[p].bufs[1] = alone.sink
                     /\ mres[p].err = alone.err

C11_Witness ==
    /\ pc = "running"
    /\ vals[1] = RV(TestStructWithSizedField, <<<<<<258, MkSlice(<<255>>)>>>>, 255>>)
    /\ vals[2] = RV(TestStructWithRawField, <<255, MkSlice(<<258, 0>>)>>)
    /\ Len(mres[1].bufs) = 2
    /\ mres[1].bufs[2] = <<1, 2>>
    /\ mres[2].bufs[1] = <<255, 1, 2>>
    /\ ~Returned(mres[2])

(***************************************************************************)
(* Claims about unions, checked under SpecUnion                            *)
(***************************************************************************)
\* what the variant-resolution operation returns for the selector value x
Resolve(x) == UnionSelect(InvalidValue, RV(AlgorithmId, x))

\* the value held by the data field of the union of container c, or <<>>
Held(c) == Data(c)[2][1]

\* the payload marshal encodes for the data field: the zero value of type t
\* for a nil field, the held value as a t otherwise
PayloadAs(c, t) ==
    IF Held(c) = <<>> THEN Zero(t) ELSE Data(Convert(Held(c)[1], t))

SelectorField(x) == BigEndian(x, 2)

\* the marshal half of C12 for the container c and the result r
MarshalResolved(c, r) ==
    LET sel == Resolve(Data(c)[1])
    IN /\ sel.err # Ok => r.err # Ok
       /\ (sel.err = Ok /\ sel.type = NilType) =>
             (r.err = Ok /\ r.bytes = SelectorField(Data(c)[1]))
       /\ (sel.err = Ok /\ sel.type # NilType /\ r.err = Ok) =>
             r.bytes = SelectorField(Data(c)[1]) \o Encoding(sel.type, PayloadAs(c, sel.type))

\* the unmarshal half of C12 for the input b, the destination before, and
\* the result r; the selector is the one decoded from b
UnmarshalResolved(b, before, r) ==
    LET sel == Resolve(FromBigEndian(SubSeq(b, 1, 2)))
        after == r.dsts[1]
    IN /\ sel.err # Ok => r.err # Ok
       /\ (sel.err = Ok /\ sel.type = NilType) =>
             /\ r.err = Ok
             /\ r.n = 2
             /\ Held(after) = Held(before)
       /\ (sel.err = Ok /\ sel.type # NilType /\ r.err = Ok) =>
             /\ Held(after) # <<>>
             /\ Type(Held(after)[1]) = sel.type
             /\ Encoding(sel.type, Data(Held(after)[1])) = SubSeq(b, 3, r.n)

\* C12: for a union in a container whose selector has value X: if the
\* resolution returns a type T, marshal encodes the payload as a T and a
\* successful unmarshal leaves the data field holding a value decoded as a T,
\* whatever the field held before; if it returns "no data", marshal writes no
\* bytes for the union and unmarshal reads none and leaves the field as it
\* was; if it returns an error, marshal and unmarshal return an error.
C12_UnionResolution ==
    /\ pc = "marshalled" => MarshalResolved(vals[1], mres)
    /\ (pc = "unmarshalledInto" /\ Len(input) >= 2) =>
          UnmarshalResolved(input, dsts[1], ures)

(***************************************************************************)
(* Claims about sized unions, checked under SpecSizedUnion                 *)
(***************************************************************************)
\* the container c holds a union struct: its field is the struct itself, or a
\* pointer that is not nil
HoldsUnion(c) == Type(c) = TestSizedUnionByValue \/ Data(c)[2] # <<>>

\* C13: a struct that is both sized-tagged and a union is rejected with an
\* error by marshal and by unmarshal, whether it is reached by value or
\* through a pointer: marshalling a container that holds one fails, and no
\* successful unmarshal leaves a container holding one it decoded.
C13_SizedUnionRejected ==
    /\ (pc = "marshalled" /\ HoldsUnion(vals[1])) => mres.err # Ok
    /\ (pc = "unmarshalled" /\ HoldsUnion(ures.dsts[1])) => ures.err # Ok

(***************************************************************************)
(* Claims about decoding slices, checked under SpecSlices                  *)
(***************************************************************************)
\* the unsigned integers of size bytes each that the bytes bs hold
DecodeUints(bs, size) ==
    [i \in 1..(Len(bs) \div size) |-> FromBigEndian(SubSeq(bs, (i - 1) * size + 1, i * size))]

\* the width of the length prefix of the slice type t
PrefixWidth(t) == IF t = ByteSlice THEN 2 ELSE 4

\* the successful result r of decoding b into a slice of type t is that of a
\* length prefix n followed by n elements
DecodedPrefixed(b, t, r) ==
    LET w == PrefixWidth(t)
        n == FromBigEndian(SubSeq(b, 1, w))
    IN /\ r.n = w + n * t.elem.size
       /\ Len(Data(r.dsts[1]).elems) = n
       /\ Data(r.dsts[1]).elems = DecodeUints(SubSeq(b, w + 1, r.n), t.elem.size)

\* the result r of decoding b into the struct before, whose field A is a
\* byte and whose field B is a raw-tagged slice of 16-bit integers
DecodedRaw(b, before, r) ==
    LET dest == Data(before)[2]
        k == Len(dest.elems)
    IN /\ dest.nil => r.err # Ok
       /\ r.err = Ok =>
             /\ r.n = 1 + 2 * k
             /\ Data(r.dsts[1])[2].elems = DecodeUints(SubSeq(b, 2, r.n), 2)

\* C14: unmarshalling a sized byte buffer or a list that is not raw reads the
\* 2-byte or 4-byte length prefix and then decodes exactly that many
\* elements, so that on success the destination holds that number of
\* elements; for a raw-tagged slice no prefix is read, a nil destination is
\* an error, and exactly len(destination) elements are decoded.
C14_SliceLengthFromPrefix ==
    pc = "unmarshalledInto" =>
        /\ (Type(dsts[1]) \in {ByteSlice, TSlice(Uint16)} /\ ures.err = Ok) =>
              DecodedPrefixed(input, Type(dsts[1]), ures)
        /\ Type(dsts[1]) = TestStructWithRawField => DecodedRaw(input, dsts[1], ures)

(***************************************************************************)
(* Claims about decoding sized structs, checked under SpecSized            *)
(***************************************************************************)
\* the successful result r of decoding b into the destination before, a
\* struct whose field S is a sized struct pointer and whose field C is a
\* byte, is that of a size n, n bytes for the struct, and the byte of C
DecodedSized(b, before, r) ==
    LET n == FromBigEndian(SubSeq(b, 1, 2))
        S == Data(r.dsts[1])[1]
        C == Data(r.dsts[1])[2]
    IN /\ r.n = 2 + n + 1
       /\ C = b[2 + n + 1]
       /\ n = 0 => S = Data(before)[1]
       /\ n > 0 =>
             /\ S # <<>>
             /\ IsPrefix(Encoding(TestSizedStruct, S[1]), SubSeq(b, 3, 2 + n))

\* C15: unmarshalling a sized-tagged struct pointer whose length prefix is n
\* consumes exactly 2 + n bytes whenever it succeeds: for n = 0 the pointer
\* is left exactly as it was; for n > 0 the pointee is decoded from the n
\* payload bytes only, and the value that follows the sized struct is decoded
\* starting at the first byte after those n bytes.
C15_SizedStructConsumesItsLength ==
    (pc = "unmarshalledInto" /\ ures.err = Ok) => DecodedSized(input, dsts[1], ures)

(***************************************************************************)
(* Claims about failing writers, checked under SpecSink                    *)
(***************************************************************************)
\* a write to the sink failed while vs were marshalled into it: the sink
\* did not receive all the bytes a writer that never fails receives
WriteFailed(vs, r) == r.sink # MarshalToWriter(NeverFails, vs).sink

\* C16: MarshalToWriter returns an error whenever a write to the sink fails
\* during marshalling, for every kind of value, a nil pointer to a sized
\* struct included; it never returns success after a write has failed.
C16_WriteErrorReturned ==
    (pc = "written" /\ WriteFailed(vals, mres.res)) => mres.res.err # Ok

====
